---- MODULE Spec2Model ----
(***************************************************************************)
(* A model of haxtra/memory-cache (src/index.js): one MemoryCache instance *)
(* with its store `$`, its clock and its garbage collection timer.         *)
(*                                                                         *)
(* JavaScript values that the code tests for truthiness or type are        *)
(* records [t, n, s, a]: t is the typeof/Array.isArray class, n the number *)
(* (or the boolean as 0/1), s the characters of a string and a the         *)
(* elements of an array.  Strings are sequences of one-character strings.  *)
(* Payloads and `default` values are opaque and are modelled as atoms.     *)
(***************************************************************************)
EXTENDS Integers, Sequences, FiniteSets, TLC

\* store    the internal store `$`: a function from the keys present to items
\* clock    the unix time in seconds
\* gcTimer  the instance's timer handle: 0 is null, otherwise a timer id
\* timers   the interval timers scheduled in the runtime
\* pc       "idle" between calls, "call" when a method has been invoked with
\*          the arguments in op, "done" when it has returned ret
\* pre      the store as it was when the call in op was made
\* shape    what `$` holds: "mapping" for a store of items, "null" once
\*          dispose() has released it; store is then Empty
\*          or the class of another value that import() has put there
\* held     the snapshot a client keeps from an export(): its items and the
\*          time of the export; at is 0 while the client holds none
\* peers    the instances made with spawn(): the objects that stores are
\*          (heap) and, for each instance, the object its `$` refers to and
\*          its timer (inst)
VARIABLES store, clock, gcTimer, timers, pc, op, ret, pre, shape, held, peers

vars == <<store, clock, gcTimer, timers, pc, op, ret, pre, shape, held, peers>>

\* ------------------------------------------------------------- bounds

\* the clock runs from StartTime up to MaxTime (seconds)
StartTime == 1

MaxTime == 3

\* ------------------------------------------------------------- values

Undef == [t |-> "undefined", n |-> 0, s |-> <<>>, a |-> <<>>]

False == [t |-> "boolean", n |-> 0, s |-> <<>>, a |-> <<>>]

True == [t |-> "boolean", n |-> 1, s |-> <<>>, a |-> <<>>]

Num(i) == [t |-> "number", n |-> i, s |-> <<>>, a |-> <<>>]

Str(chars) == [t |-> "string", n |-> 0, s |-> chars, a |-> <<>>]

Arr(elems) == [t |-> "array", n |-> 0, s |-> <<>>, a |-> elems]

\* JavaScript truthiness: undefined, false, 0 and '' are falsy
Truthy(x) ==
    CASE x.t = "undefined" -> FALSE
      [] x.t = "boolean" -> x.n = 1
      [] x.t = "number" -> x.n # 0
      [] x.t = "string" -> x.s # <<>>
      [] x.t = "array" -> TRUE

\* opaque values: null, undefined, and what a throwing call leaves behind
Null == "null"

Undefined == "undefined"

Thrown == "Error"

Payloads == {"v1", "v2"}

\* a payload that refers to itself: JSON.stringify throws on it
Circular == "circular"

Defaults == {Undefined, "def"}

\* keys and tags are strings
Key1 == <<"k">>

Key2 == <<"j">>

Keys == {Key1, Key2}

Foo == <<"f">>

Bar == <<"b">>

Zzz == <<"z">>

\* ------------------------------------------------------------- helpers

Whitespace == {" ", "\t"}

\* String.prototype.replace(/\s+/g, ' ')
RECURSIVE ReplaceWs(_)
ReplaceWs(s) ==
    IF s = <<>> THEN <<>>
    ELSE IF Head(s) \in Whitespace
         THEN IF Len(s) > 1 /\ s[2] \in Whitespace
              THEN ReplaceWs(Tail(s))
              ELSE <<" ">> \o ReplaceWs(Tail(s))
         ELSE <<Head(s)>> \o ReplaceWs(Tail(s))

\* String.prototype.trim()
RECURSIVE Trim(_)
Trim(s) ==
    IF s = <<>> THEN <<>>
    ELSE IF Head(s) \in Whitespace THEN Trim(Tail(s))
    ELSE IF s[Len(s)] \in Whitespace THEN Trim(SubSeq(s, 1, Len(s) - 1))
    ELSE s

\* String.prototype.split(' ')
RECURSIVE Split(_)
Split(s) ==
    IF \A i \in 1..Len(s) : s[i] # " " THEN <<s>>
    ELSE LET i == CHOOSE j \in 1..Len(s) :
                      s[j] = " " /\ \A h \in 1..(j - 1) : s[h] # " "
         IN <<SubSeq(s, 1, i - 1)>> \o Split(SubSeq(s, i + 1, Len(s)))

\* _timeNow(): the unix time in seconds
TimeNow == clock

\* _paramArray throws unless the input is a string or an array
ParamArrayThrows(input) == input.t \notin {"string", "array"}

\* _paramArray(input): the array of tags or keys
ParamArray(input) ==
    IF input.t = "string" THEN Split(Trim(ReplaceWs(input.s)))
    ELSE input.a

\* _defaultOrNull(opts)
DefaultOrNull(opts) ==
    IF opts.default # Undefined THEN opts.default ELSE Null

\* Array.prototype.includes
Includes(arr, x) == \E i \in 1..Len(arr) : arr[i] = x

\* _itemHasAllTags(item, tags)
ItemHasAllTags(item, tags) ==
    \A i \in 1..Len(tags) : Includes(item.tags.a, tags[i])

\* _itemHasAnyTag(item, tags)
ItemHasAnyTag(item, tags) ==
    \E i \in 1..Len(tags) : Includes(item.tags.a, tags[i])

\* ------------------------------------------------------------- inputs
\* The calls a client makes: for each method a small set of argument lists.
\* A missing option is Undef.  One set call gives a time to live of -now, the
\* others do not depend on the clock.

NoSetOpts == [tags |-> Undef, expireIn |-> Undef, expireAt |-> Undef]

SetArgs ==
    { [payload |-> "v1", opts |-> NoSetOpts],
      [payload |-> "v2", opts |-> [NoSetOpts EXCEPT !.tags = Str(<<" ", "f", "\t", " ", "b", " ">>)]],
      [payload |-> "v1", opts |-> [NoSetOpts EXCEPT !.tags = Arr(<<Bar>>), !.expireIn = Num(1)]],
      [payload |-> "v2", opts |-> [NoSetOpts EXCEPT !.expireIn = Num(-1)]],
      [payload |-> "v2", opts |-> [NoSetOpts EXCEPT !.expireIn = Num(0 - clock)]],
      [payload |-> "v1", opts |-> [NoSetOpts EXCEPT !.expireIn = Num(0), !.expireAt = Num(2)]],
      [payload |-> "v2", opts |-> [NoSetOpts EXCEPT !.tags = Str(<<"f">>), !.expireAt = Num(3)]],
      [payload |-> "v1", opts |-> [NoSetOpts EXCEPT !.expireIn = Num(1), !.expireAt = Num(1)]],
      [payload |-> "v2", opts |-> [NoSetOpts EXCEPT !.tags = Arr(<<Foo, Bar>>), !.expireAt = Num(1)]],
      [payload |-> "v1", opts |-> [NoSetOpts EXCEPT !.expireAt = Num(0)]],
      [payload |-> "v2", opts |-> [NoSetOpts EXCEPT !.tags = Str(<<>>)]],
      [payload |-> "v1", opts |-> [NoSetOpts EXCEPT !.tags = Arr(<<>>)]],
      [payload |-> "v1", opts |-> [NoSetOpts EXCEPT !.tags = Str(<<" ">>)]],
      [payload |-> "v2", opts |-> [NoSetOpts EXCEPT !.tags = Num(5)]] }

SetCalls ==
    { [name |-> "set", key |-> k, payload |-> x.payload, opts |-> x.opts] :
        k \in Keys, x \in SetArgs }

NoGetOpts == [default |-> Undefined, maxAge |-> Undef, force |-> Undef]

GetOpts ==
    { NoGetOpts,
      [NoGetOpts EXCEPT !.default = "def"],
      [NoGetOpts EXCEPT !.maxAge = Num(0)],
      [NoGetOpts EXCEPT !.maxAge = Num(1)],
      [NoGetOpts EXCEPT !.maxAge = Num(1), !.default = "def"],
      [NoGetOpts EXCEPT !.maxAge = Num(2)],
      [NoGetOpts EXCEPT !.force = True],
      [NoGetOpts EXCEPT !.force = True, !.maxAge = Num(1), !.default = "def"] }

GetCalls == { [name |-> "get", key |-> k, opts |-> o] : k \in Keys, o \in GetOpts }

GetMetaCalls == { [name |-> "getMeta", key |-> k] : k \in Keys }

DeleteCalls ==
    { [name |-> "delete", keys |-> ks] :
        ks \in { Str(Key1), Str(<<"k", " ", "j">>), Arr(<<Key2, Key2>>), Arr(<<>>),
                 Arr(<<Zzz>>), Num(5) } }

\* the tags of getTagged, deleteTagged and trigger
TagQueries ==
    { Str(<<"f">>),
      Str(<<" ", "f", "\t", " ", "b", " ">>),
      Str(<<>>),
      Arr(<<Bar>>),
      Arr(<<Zzz>>),
      Arr(<<>>),
      Num(5) }

GetTaggedCalls ==
    { [name |-> "getTagged", tags |-> q, opts |-> [all |-> a, meta |-> m]] :
        q \in TagQueries, a \in {Undef, True}, m \in {Undef, True} }

DeleteTaggedCalls ==
    { [name |-> n, tags |-> q, opts |-> [all |-> a]] :
        n \in {"deleteTagged", "trigger"}, q \in TagQueries, a \in {Undef, True} }

\* keys(validOnly), count(validOnly), tags(validOnly)
AuxCalls ==
    { [name |-> n, validOnly |-> v] : n \in {"keys", "count", "tags"}, v \in {Undef, True} }

ExportCalls ==
    { [name |-> "export", opts |-> [persistent |-> p, expired |-> e, object |-> o]] :
        p \in {Undef, True}, e \in {Undef, True}, o \in {Undef, True} }

\* clear(), deleteExpired(), gcStart(), gcStop(), gcStatus()
PlainCalls ==
    { [name |-> n] : n \in {"clear", "deleteExpired", "gcStart", "gcStop", "gcStatus"} }

\* ------------------------------------------------------------- the store

\* the store after this.$[key] = item
Assign(st, key, item) ==
    [k \in (DOMAIN st) \cup {key} |-> IF k = key THEN item ELSE st[k]]

\* the store after delete this.$[key], for every key in ks
Remove(st, ks) == [k \in (DOMAIN st) \ ks |-> st[k]]

\* Object.create(null)
Empty == [k \in {} |-> 0]

\* ------------------------------------------------------------- set, get

\* set() that stores the time to live as it was given
SetItemKeepsDuration(key, payload, opts, now) ==
    [ key |-> key,
      payload |-> payload,
      tags |-> IF Truthy(opts.tags) THEN Arr(ParamArray(opts.tags)) ELSE False,
      expires |-> IF Truthy(opts.expireIn) THEN Num(opts.expireIn.n)
                  ELSE IF Truthy(opts.expireAt) THEN opts.expireAt ELSE False,
      created |-> now ]

\* set() that looks at expireAt before expireIn
SetItemPrefersExpireAt(key, payload, opts, now) ==
    [ key |-> key,
      payload |-> payload,
      tags |-> IF Truthy(opts.tags) THEN Arr(ParamArray(opts.tags)) ELSE False,
      expires |-> IF Truthy(opts.expireAt) THEN opts.expireAt
                  ELSE IF Truthy(opts.expireIn) THEN Num(now + opts.expireIn.n)
                  ELSE False,
      created |-> now ]

\* the item that set() stores
SetItem(key, payload, opts, now) ==
    [ key |-> key,
      payload |-> payload,
      tags |-> IF Truthy(opts.tags) THEN Arr(ParamArray(opts.tags)) ELSE False,
      expires |-> IF Truthy(opts.expireIn) THEN Num(now + opts.expireIn.n)
                  ELSE IF Truthy(opts.expireAt) THEN opts.expireAt ELSE False,
      created |-> now ]

\* set throws when opts.tags is given and _paramArray rejects it
SetThrows(opts) == Truthy(opts.tags) /\ ParamArrayThrows(opts.tags)

\* set() that keeps the tags of the item it overwrites when it is given none
SetStoreMergesTags(st, key, payload, opts, now) ==
    LET item == SetItem(key, payload, opts, now) IN
    Assign(st, key,
           IF key \in DOMAIN st /\ item.tags = False
           THEN [item EXCEPT !.tags = st[key].tags]
           ELSE item)

\* the store after set(key, payload, opts)
SetStore(st, key, payload, opts, now) ==
    Assign(st, key, SetItem(key, payload, opts, now))

Set ==
    /\ pc = "call" /\ op.name = "set"
    /\ IF SetThrows(op.opts)
       THEN /\ ret' = Thrown
            /\ store' = store
       ELSE /\ store' = SetStore(store, op.key, op.payload, op.opts, TimeNow)
            /\ ret' = TRUE
    /\ pc' = "done"
    /\ UNCHANGED <<peers, shape, held, clock, gcTimer, timers, op, pre>>

\* get() for which an item is still fresh at the second it expires
GetResultFreshAtExpiry(st, key, opts, now) ==
    IF key \notin DOMAIN st THEN DefaultOrNull(opts)
    ELSE LET item == st[key] IN
         IF Truthy(opts.force) THEN item.payload
         ELSE IF Truthy(opts.maxAge)
              THEN IF opts.maxAge.n > now - item.created
                   THEN item.payload
                   ELSE DefaultOrNull(opts)
         ELSE IF item.expires = False THEN item.payload
         ELSE IF Truthy(item.expires) /\ item.expires.n >= now THEN item.payload
         ELSE DefaultOrNull(opts)

\* get() for which maxAge does not override an expiry that has passed
GetResultExpiresFirst(st, key, opts, now) ==
    IF key \notin DOMAIN st THEN DefaultOrNull(opts)
    ELSE LET item == st[key] IN
         IF Truthy(opts.force) THEN item.payload
         ELSE IF item.expires # False /\ ~(Truthy(item.expires) /\ item.expires.n > now)
              THEN DefaultOrNull(opts)
         ELSE IF Truthy(opts.maxAge)
              THEN IF opts.maxAge.n > now - item.created
                   THEN item.payload
                   ELSE DefaultOrNull(opts)
         ELSE item.payload

\* what get(key, opts) returns
\* get() that looks at maxAge before force
GetResultMaxAgeFirst(st, key, opts, now) ==
    IF key \notin DOMAIN st THEN DefaultOrNull(opts)
    ELSE LET item == st[key] IN
         IF Truthy(opts.maxAge)
         THEN IF opts.maxAge.n > now - item.created
              THEN item.payload
              ELSE DefaultOrNull(opts)
         ELSE IF Truthy(opts.force) THEN item.payload
         ELSE IF item.expires = False THEN item.payload
         ELSE IF Truthy(item.expires) /\ item.expires.n > now THEN item.payload
         ELSE DefaultOrNull(opts)

GetResult(st, key, opts, now) ==
    IF key \notin DOMAIN st THEN DefaultOrNull(opts)
    ELSE LET item == st[key] IN
         IF Truthy(opts.force) THEN item.payload
         ELSE IF Truthy(opts.maxAge)
              THEN IF opts.maxAge.n > now - item.created
                   THEN item.payload
                   ELSE DefaultOrNull(opts)
         ELSE IF item.expires = False THEN item.payload
         ELSE IF Truthy(item.expires) /\ item.expires.n > now THEN item.payload
         ELSE DefaultOrNull(opts)

\* get() that deletes the item on a stale miss
GetStoreDropsStale(st, key, opts, now) ==
    IF /\ key \in DOMAIN st
       /\ ~Truthy(opts.force) /\ ~Truthy(opts.maxAge)
       /\ st[key].expires # False
       /\ ~(Truthy(st[key].expires) /\ st[key].expires.n > now)
    THEN [k \in (DOMAIN st) \ {key} |-> st[k]]
    ELSE st

\* the store after get(key, opts): get deletes nothing, also on a stale miss
GetStore(st, key, opts, now) == st

Get ==
    /\ pc = "call" /\ op.name = "get"
    /\ ret' = GetResult(store, op.key, op.opts, TimeNow)
    /\ store' = GetStore(store, op.key, op.opts, TimeNow)
    /\ pc' = "done"
    /\ UNCHANGED <<peers, shape, held, clock, gcTimer, timers, op, pre>>

\* getMeta(key): this.$[key] || null
GetMeta ==
    /\ pc = "call" /\ op.name = "getMeta"
    /\ ret' = IF op.key \in DOMAIN store THEN store[op.key] ELSE Null
    /\ pc' = "done"
    /\ UNCHANGED <<peers, shape, held, store, clock, gcTimer, timers, op, pre>>

\* the loop of delete(keys): [store, count] after the keys from index i on
\* delete() that counts every name, stored or not
RECURSIVE DeleteLoopCountsAll(_, _, _, _)
DeleteLoopCountsAll(st, keys, i, count) ==
    IF i > Len(keys) THEN [store |-> st, count |-> count]
    ELSE DeleteLoopCountsAll(Remove(st, {keys[i]}), keys, i + 1, count + 1)

RECURSIVE DeleteLoop(_, _, _, _)
DeleteLoop(st, keys, i, count) ==
    IF i > Len(keys) THEN [store |-> st, count |-> count]
    ELSE IF keys[i] \notin DOMAIN st
         THEN DeleteLoop(st, keys, i + 1, count)
         ELSE DeleteLoop(Remove(st, {keys[i]}), keys, i + 1, count + 1)

Delete ==
    /\ pc = "call" /\ op.name = "delete"
    /\ IF ParamArrayThrows(op.keys)
       THEN /\ ret' = Thrown
            /\ store' = store
       ELSE LET r == DeleteLoop(store, ParamArray(op.keys), 1, 0) IN
            /\ store' = r.store
            /\ ret' = r.count
    /\ pc' = "done"
    /\ UNCHANGED <<peers, shape, held, clock, gcTimer, timers, op, pre>>

Clear ==
    /\ pc = "call" /\ op.name = "clear"
    /\ store' = Empty
    /\ ret' = Undefined
    /\ pc' = "done"
    /\ UNCHANGED <<peers, shape, held, clock, gcTimer, timers, op, pre>>

\* ------------------------------------------------------------- garbage collection

\* the test of deleteExpired: cached.expires && now > cached.expires
Expired(item, now) == Truthy(item.expires) /\ now > item.expires.n

\* deleteExpired() that removes one expired item per call
ExpiredKeysOneAtATime(st, now) ==
    LET ks == {k \in DOMAIN st : Expired(st[k], now)} IN
    IF ks = {} THEN {} ELSE {CHOOSE k \in ks : TRUE}

\* the keys that deleteExpired() removes
ExpiredKeys(st, now) == {k \in DOMAIN st : Expired(st[k], now)}

\* the store after deleteExpired()
DeleteExpiredStore(st, now) == Remove(st, ExpiredKeys(st, now))

\* what deleteExpired() returns
DeleteExpiredCount(st, now) == Cardinality(ExpiredKeys(st, now))

DeleteExpired ==
    /\ pc = "call" /\ op.name = "deleteExpired"
    /\ store' = DeleteExpiredStore(store, TimeNow)
    /\ ret' = DeleteExpiredCount(store, TimeNow)
    /\ pc' = "done"
    /\ UNCHANGED <<peers, shape, held, clock, gcTimer, timers, op, pre>>

\* setInterval hands out a timer id that is not in use
NewTimer(ts) == CHOOSE i \in 1..(Cardinality(ts) + 1) : i \notin ts

\* gcStop() that forgets clearInterval
GcStoppedKeepsTimer(timer, ts) ==
    IF timer # 0
    THEN [gcTimer |-> 0, timers |-> ts, ret |-> TRUE]
    ELSE [gcTimer |-> timer, timers |-> ts, ret |-> FALSE]

\* gcStop(), as gcStart() and the client call it: [gcTimer, timers, ret]
GcStopped(timer, ts) ==
    IF timer # 0
    THEN [gcTimer |-> 0, timers |-> ts \ {timer}, ret |-> TRUE]
    ELSE [gcTimer |-> timer, timers |-> ts, ret |-> FALSE]

GcStart ==
    /\ pc = "call" /\ op.name = "gcStart"
    /\ LET s == GcStopped(gcTimer, timers)
           id == NewTimer(s.timers)
       IN /\ gcTimer' = id
          /\ timers' = s.timers \cup {id}
    /\ ret' = Undefined
    /\ pc' = "done"
    /\ UNCHANGED <<peers, shape, held, store, clock, op, pre>>

GcStop ==
    /\ pc = "call" /\ op.name = "gcStop"
    /\ LET s == GcStopped(gcTimer, timers)
       IN /\ gcTimer' = s.gcTimer
          /\ timers' = s.timers
          /\ ret' = s.ret
    /\ pc' = "done"
    /\ UNCHANGED <<peers, shape, held, store, clock, op, pre>>

GcStatus ==
    /\ pc = "call" /\ op.name = "gcStatus"
    /\ ret' = (gcTimer # 0)
    /\ pc' = "done"
    /\ UNCHANGED <<peers, shape, held, store, clock, gcTimer, timers, op, pre>>

\* a scheduled interval timer fires between two calls and runs deleteExpired;
\* on a released store Object.keys(null) throws a TypeError
GcTick ==
    /\ pc = "idle"
    /\ timers # {}
    /\ store' = IF shape = "mapping" THEN DeleteExpiredStore(store, TimeNow) ELSE store
    /\ ret' = IF shape = "mapping" THEN DeleteExpiredCount(store, TimeNow) ELSE Thrown
    /\ op' = [name |-> "gcTick"]
    /\ pre' = store
    /\ pc' = "done"
    /\ UNCHANGED <<peers, shape, held, clock, gcTimer, timers>>

\* ------------------------------------------------------------- dispose

\* dispose() that does not stop the timer
DisposedKeepsTimer(timer, ts) == [gcTimer |-> timer, timers |-> ts, ret |-> FALSE]

\* the timer after dispose(), which calls gcStop()
Disposed(timer, ts) == GcStopped(timer, ts)

Dispose ==
    /\ pc = "call" /\ op.name = "dispose"
    /\ store' = Empty
    /\ shape' = "null"
    /\ LET s == Disposed(gcTimer, timers)
       IN /\ gcTimer' = s.gcTimer
          /\ timers' = s.timers
    /\ ret' = Undefined
    /\ pc' = "done"
    /\ UNCHANGED <<peers, held, clock, op, pre>>

\* ------------------------------------------------------------- aux

\* keys, count and tags run deleteExpired first when validOnly is truthy
AuxStore(st, validOnly, now) ==
    IF Truthy(validOnly) THEN DeleteExpiredStore(st, now) ELSE st

\* how often tag occurs in the tags of the items under the keys ks
RECURSIVE TagCount(_, _, _)
TagCount(st, ks, tag) ==
    IF ks = {} THEN 0
    ELSE LET k == CHOOSE x \in ks : TRUE
             here == IF Truthy(st[k].tags)
                     THEN Cardinality({i \in 1..Len(st[k].tags.a) : st[k].tags.a[i] = tag})
                     ELSE 0
         IN here + TagCount(st, ks \ {k}, tag)

\* what tags() returns: {tag: count}
TagsResult(st) ==
    LET used == UNION { IF Truthy(st[k].tags)
                        THEN {st[k].tags.a[i] : i \in 1..Len(st[k].tags.a)}
                        ELSE {} : k \in DOMAIN st }
    IN [tag \in used |-> TagCount(st, DOMAIN st, tag)]

KeysCall ==
    /\ pc = "call" /\ op.name = "keys"
    /\ store' = AuxStore(store, op.validOnly, TimeNow)
    /\ ret' = DOMAIN store'
    /\ pc' = "done"
    /\ UNCHANGED <<peers, shape, held, clock, gcTimer, timers, op, pre>>

Count ==
    /\ pc = "call" /\ op.name = "count"
    /\ store' = AuxStore(store, op.validOnly, TimeNow)
    /\ ret' = Cardinality(DOMAIN store')
    /\ pc' = "done"
    /\ UNCHANGED <<peers, shape, held, clock, gcTimer, timers, op, pre>>

Tags ==
    /\ pc = "call" /\ op.name = "tags"
    /\ store' = AuxStore(store, op.validOnly, TimeNow)
    /\ ret' = TagsResult(store')
    /\ pc' = "done"
    /\ UNCHANGED <<peers, shape, held, clock, gcTimer, timers, op, pre>>

\* ------------------------------------------------------------- tags

\* getTagged that skips the items deleteExpired would remove
GetTaggedMatchFreshOnly(item, tags, all) ==
    /\ Truthy(item.tags)
    /\ ~(Truthy(item.expires) /\ clock > item.expires.n)
    /\ IF Truthy(all) THEN ItemHasAllTags(item, tags) ELSE ItemHasAnyTag(item, tags)

\* getTagged: the item passes the checks of the loop body
\* getTagged() without the test that skips untagged items
GetTaggedMatchNoSkip(item, tags, all) ==
    IF Truthy(all) THEN ItemHasAllTags(item, tags) ELSE ItemHasAnyTag(item, tags)

GetTaggedMatch(item, tags, all) ==
    /\ Truthy(item.tags)
    /\ IF Truthy(all) THEN ItemHasAllTags(item, tags) ELSE ItemHasAnyTag(item, tags)

\* what getTagged(tags, opts) returns
GetTaggedResult(st, tags, opts) ==
    [k \in {x \in DOMAIN st : GetTaggedMatch(st[x], tags, opts.all)} |->
        IF Truthy(opts.meta) THEN st[k] ELSE st[k].payload]

GetTagged ==
    /\ pc = "call" /\ op.name = "getTagged"
    /\ ret' = IF ParamArrayThrows(op.tags) THEN Thrown
              ELSE GetTaggedResult(store, ParamArray(op.tags), op.opts)
    /\ pc' = "done"
    /\ UNCHANGED <<peers, shape, held, store, clock, gcTimer, timers, op, pre>>

\* _deleteItemsTagged that never asks for all tags
DeleteTaggedMatchAny(item, tags, allTags) ==
    /\ Truthy(item.tags)
    /\ ItemHasAnyTag(item, tags)

\* _deleteItemsTagged: the item passes the checks of the loop body
DeleteTaggedMatch(item, tags, allTags) ==
    /\ Truthy(item.tags)
    /\ IF Truthy(allTags) THEN ItemHasAllTags(item, tags) ELSE ItemHasAnyTag(item, tags)

\* the keys that _deleteItemsTagged(tags, allTags) removes
DeleteTaggedKeys(st, tags, allTags) ==
    {k \in DOMAIN st : DeleteTaggedMatch(st[k], tags, allTags)}

\* deleteTagged(tags, opts) and trigger(tags, opts): both call _deleteItemsTagged
DeleteItemsTagged ==
    /\ IF ParamArrayThrows(op.tags)
       THEN /\ ret' = Thrown
            /\ store' = store
       ELSE LET ks == DeleteTaggedKeys(store, ParamArray(op.tags), op.opts.all) IN
            /\ store' = Remove(store, ks)
            /\ ret' = Cardinality(ks)
    /\ pc' = "done"
    /\ UNCHANGED <<peers, shape, held, clock, gcTimer, timers, op, pre>>

DeleteTagged == pc = "call" /\ op.name = "deleteTagged" /\ DeleteItemsTagged

Trigger == pc = "call" /\ op.name = "trigger" /\ DeleteItemsTagged

\* ------------------------------------------------------------- export

\* export runs deleteExpired first unless persistent or expired is set
ExportSweeps(opts) == ~Truthy(opts.persistent) /\ ~Truthy(opts.expired)

\* the store after export(opts)
ExportStore(st, opts, now) ==
    IF ExportSweeps(opts) THEN DeleteExpiredStore(st, now) ELSE st

\* JSON.parse(JSON.stringify(item)): strings, numbers, false and arrays of
\* strings come back as they were
JsonItem(item) ==
    [ key |-> item.key,
      payload |-> item.payload,
      tags |-> IF item.tags.t = "array" THEN Arr(item.tags.a) ELSE False,
      expires |-> IF item.expires.t = "number" THEN Num(item.expires.n) ELSE False,
      created |-> item.created ]

\* what export(opts) hands to JSON.stringify
ToExport(st, opts, now) ==
    IF Truthy(opts.persistent)
    THEN [k \in {x \in DOMAIN st : ~Truthy(st[x].expires)} |-> st[k]]
    ELSE ExportStore(st, opts, now)

\* JSON.stringify throws a TypeError on a circular payload
StringifyThrows(toExport) == \E k \in DOMAIN toExport : toExport[k].payload = Circular

\* export(opts) throws
ExportThrows(st, opts, now) == StringifyThrows(ToExport(st, opts, now))

Export ==
    /\ pc = "call" /\ op.name = "export"
    /\ store' = ExportStore(store, op.opts, TimeNow)
    /\ LET toExport == ToExport(store, op.opts, TimeNow) IN
       ret' = IF StringifyThrows(toExport) THEN Thrown
              ELSE [ json |-> ~Truthy(op.opts.object),
                     state |-> [k \in DOMAIN toExport |-> JsonItem(toExport[k])] ]
    /\ pc' = "done"
    /\ UNCHANGED <<peers, shape, held, clock, gcTimer, timers, op, pre>>

\* ------------------------------------------------------------- import
\* The argument of import is [t, kind, state]: t is its typeof, kind is what
\* it is, or for a string what JSON.parse makes of it ("invalid" when the
\* text does not parse), and state holds the items when kind is "mapping".

Text(kind, st) == [t |-> "string", kind |-> kind, state |-> st]

Object(kind, st) == [t |-> "object", kind |-> kind, state |-> st]

Other(t) == [t |-> t, kind |-> t, state |-> Empty]

\* import(obj) throws: JSON.parse on text that does not parse, or the Error
\* for a value that is neither a string nor of type object
ImportThrows(obj) ==
    IF obj.t = "string" THEN obj.kind = "invalid" ELSE obj.t # "object"

Import ==
    /\ pc = "call" /\ op.name = "import"
    /\ IF ImportThrows(op.obj)
       THEN /\ ret' = Thrown
            /\ UNCHANGED <<store, shape>>
       ELSE /\ store' = op.obj.state
            /\ shape' = op.obj.kind
            /\ ret' = TRUE
    /\ pc' = "done"
    /\ UNCHANGED <<peers, held, clock, gcTimer, timers, op, pre>>

\* the client keeps the result of an export() in default mode
Keep ==
    /\ pc = "done" /\ op.name = "export"
    /\ ExportSweeps(op.opts)
    /\ ~ExportThrows(pre, op.opts, TimeNow)
    /\ held' = [state |-> ret.state, at |-> clock]
    /\ pc' = "idle"
    /\ op' = [name |-> "none"]
    /\ ret' = Null
    /\ pre' = store
    /\ UNCHANGED <<peers, shape, store, clock, gcTimer, timers>>

\* ------------------------------------------------------------- spawn
\* spawn(opts) is new MemoryCache(opts): the new instance's `$` is opts.state
\* itself when a state is given, and a new empty object otherwise.  A store
\* is an object of the heap: "S" is the state object the client passes, and
\* the object named after an instance is the one that instance has made.

Peers == {"a", "b"}

\* the state object of the client
Snapshot ==
    [k \in {Key1} |->
        [key |-> Key1, payload |-> "v1", tags |-> Arr(<<Foo>>), expires |-> False,
         created |-> StartTime]]

\* ref is "none" before the instance exists and "null" after dispose()
NoPeer == [ref |-> "none", gcTimer |-> 0, timers |-> {}]

NoPeers ==
    [ heap |-> [o \in {"S"} \cup Peers |-> IF o = "S" THEN Snapshot ELSE Empty],
      inst |-> [i \in Peers |-> NoPeer] ]

\* the instance holds a store
Holds(ps, i) == ps.inst[i].ref \in {"S", i}

\* the parent calls spawn(opts), with opts.state the state object or absent
Spawn(i, state) ==
    /\ pc = "idle"
    /\ peers.inst[i].ref = "none"
    /\ peers' = [peers EXCEPT !.inst[i] = [NoPeer EXCEPT !.ref = IF state = "S" THEN "S" ELSE i],
                              !.heap[i] = Empty]
    /\ UNCHANGED <<store, clock, gcTimer, timers, pc, op, ret, pre, shape, held>>

\* the store after a call that writes to it
Applied(st, c, now) ==
    CASE c.name = "set" -> SetStore(st, c.key, c.payload, c.opts, now)
      [] c.name = "delete" -> DeleteLoop(st, ParamArray(c.keys), 1, 0).store
      [] c.name = "trigger" -> Remove(st, DeleteTaggedKeys(st, ParamArray(c.tags), c.opts.all))
      [] c.name = "deleteExpired" -> DeleteExpiredStore(st, now)

\* the spawned instance i runs set, delete, trigger or deleteExpired
PeerWrite(i, c) ==
    /\ pc = "idle"
    /\ Holds(peers, i)
    /\ LET o == peers.inst[i].ref IN
       peers' = [peers EXCEPT !.heap[o] = Applied(peers.heap[o], c, TimeNow)]
    /\ UNCHANGED <<store, clock, gcTimer, timers, pc, op, ret, pre, shape, held>>

\* clear(): this.$ = Object.create(null)
PeerClear(i) ==
    /\ pc = "idle"
    /\ Holds(peers, i)
    /\ peers' = [peers EXCEPT !.inst[i].ref = i, !.heap[i] = Empty]
    /\ UNCHANGED <<store, clock, gcTimer, timers, pc, op, ret, pre, shape, held>>

\* import(obj) of the state object, which becomes `$`, or of its text, which
\* JSON.parse turns into a new object
PeerImport(i, type) ==
    /\ pc = "idle"
    /\ Holds(peers, i)
    /\ peers' = IF type = "object"
                THEN [peers EXCEPT !.inst[i].ref = "S"]
                ELSE [peers EXCEPT !.inst[i].ref = i,
                                   !.heap[i] = [k \in DOMAIN peers.heap["S"] |->
                                                   JsonItem(peers.heap["S"][k])]]
    /\ UNCHANGED <<store, clock, gcTimer, timers, pc, op, ret, pre, shape, held>>

PeerGcStart(i) ==
    /\ pc = "idle"
    /\ peers.inst[i].ref # "none"
    /\ LET s == GcStopped(peers.inst[i].gcTimer, peers.inst[i].timers)
           id == NewTimer(s.timers)
       IN peers' = [peers EXCEPT !.inst[i].gcTimer = id,
                                 !.inst[i].timers = s.timers \cup {id}]
    /\ UNCHANGED <<store, clock, gcTimer, timers, pc, op, ret, pre, shape, held>>

PeerGcStop(i) ==
    /\ pc = "idle"
    /\ peers.inst[i].ref # "none"
    /\ LET s == GcStopped(peers.inst[i].gcTimer, peers.inst[i].timers)
       IN peers' = [peers EXCEPT !.inst[i].gcTimer = s.gcTimer,
                                 !.inst[i].timers = s.timers]
    /\ UNCHANGED <<store, clock, gcTimer, timers, pc, op, ret, pre, shape, held>>

PeerDispose(i) ==
    /\ pc = "idle"
    /\ Holds(peers, i)
    /\ LET s == Disposed(peers.inst[i].gcTimer, peers.inst[i].timers)
       IN peers' = [peers EXCEPT !.inst[i] = [ref |-> "null", gcTimer |-> s.gcTimer,
                                              timers |-> s.timers]]
    /\ UNCHANGED <<store, clock, gcTimer, timers, pc, op, ret, pre, shape, held>>

\* a timer of the spawned instance i fires
PeerTick(i) ==
    /\ peers.inst[i].timers # {}
    /\ PeerWrite(i, [name |-> "deleteExpired"])

\* ------------------------------------------------------------- clients and clock

\* a client invokes a method
Call(c) ==
    /\ pc = "idle"
    /\ op' = c
    /\ pre' = store
    /\ pc' = "call"
    /\ UNCHANGED <<peers, shape, held, store, clock, gcTimer, timers, ret>>

\* the client has taken the result
Return ==
    /\ pc = "done"
    /\ pc' = "idle"
    /\ op' = [name |-> "none"]
    /\ ret' = Null
    /\ pre' = store
    /\ UNCHANGED <<peers, shape, held, store, clock, gcTimer, timers>>

\* the second of two deleteExpired() calls in a row
SecondSweep == [name |-> "deleteExpired", again |-> TRUE]

\* the client has taken the result of deleteExpired() and calls it again at
\* once
Again ==
    /\ pc = "done" /\ op = [name |-> "deleteExpired"]
    /\ op' = SecondSweep
    /\ pre' = store
    /\ pc' = "call"
    /\ UNCHANGED <<peers, shape, held, store, clock, gcTimer, timers, ret>>

\* the clock advances by one second between two calls
Tick ==
    /\ pc = "idle"
    /\ clock < MaxTime
    /\ clock' = clock + 1
    /\ UNCHANGED <<peers, shape, held, store, gcTimer, timers, pc, op, ret, pre>>

\* ------------------------------------------------------------- specification

Init ==
    /\ store = Empty
    /\ clock = StartTime
    /\ gcTimer = 0
    /\ timers = {}
    /\ pc = "idle"
    /\ op = [name |-> "none"]
    /\ ret = Null
    /\ pre = Empty
    /\ shape = "mapping"
    /\ held = [state |-> Empty, at |-> 0]
    /\ peers = NoPeers

Invoke ==
    \/ \E c \in SetCalls : Call(c)
    \/ \E c \in GetCalls : Call(c)
    \/ \E c \in GetMetaCalls : Call(c)
    \/ \E c \in DeleteCalls : Call(c)
    \/ \E c \in GetTaggedCalls : Call(c)
    \/ \E c \in DeleteTaggedCalls : Call(c)
    \/ \E c \in AuxCalls : Call(c)
    \/ \E c \in ExportCalls : Call(c)
    \/ \E c \in PlainCalls : Call(c)

Next ==
    \/ Invoke
    \/ Set \/ Get \/ GetMeta \/ Delete \/ Clear
    \/ KeysCall \/ Count \/ Tags
    \/ GetTagged \/ DeleteTagged \/ Trigger
    \/ DeleteExpired \/ GcStart \/ GcStop \/ GcStatus \/ GcTick
    \/ Export
    \/ Return
    \/ Again
    \/ Tick

Spec == Init /\ [][Next]_vars

\* ------------------------------------------------------------- the sweep timer
\* One instance whose client starts and stops the sweep and disposes of the
\* instance in any order.  The gc methods do not touch the store and are
\* called on a disposed instance too; set is called while the store is held.

GcCalls == { [name |-> n] : n \in {"gcStart", "gcStop", "gcStatus", "dispose"} }

GcSetCalls ==
    { [name |-> "set", key |-> k, payload |-> "v1", opts |-> o] :
        k \in Keys, o \in {NoSetOpts, [NoSetOpts EXCEPT !.expireIn = Num(-1)]} }

InvokeGc ==
    \/ \E c \in GcCalls : Call(c)
    \/ shape = "mapping" /\ \E c \in GcSetCalls : Call(c)

NextGc ==
    \/ InvokeGc
    \/ Set
    \/ GcStart \/ GcStop \/ GcStatus \/ Dispose \/ GcTick
    \/ Return
    \/ Tick

SpecGc == Init /\ [][NextGc]_vars

\* ------------------------------------------------------------- the sweep at work
\* One instance over time.  Each step is a whole call whose result the
\* client drops, as setInterval drops the result of its callback: a set or
\* a delete, gcStart, gcStop or dispose, a firing of the timer, or a second
\* of the clock.  setInterval fires its callback again and again between
\* the synchronous calls and time goes on: the timer is strongly fair and
\* the clock weakly.

SweepSetCalls ==
    { [name |-> "set", key |-> k, payload |-> "v1", opts |-> o] :
        k \in Keys,
        o \in { NoSetOpts,
                [NoSetOpts EXCEPT !.expireIn = Num(1)],
                [NoSetOpts EXCEPT !.expireIn = Num(0 - clock)] } }

SweepDeleteCalls == { [name |-> "delete", keys |-> Str(Key1)] }

\* set or delete, called and returned
Write(c) ==
    /\ pc = "idle"
    /\ shape = "mapping"
    /\ store' = Applied(store, c, TimeNow)
    /\ UNCHANGED <<peers, shape, held, clock, gcTimer, timers, pc, op, ret, pre>>

\* gcStart(), called and returned
Start ==
    /\ pc = "idle"
    /\ LET s == GcStopped(gcTimer, timers)
           id == NewTimer(s.timers)
       IN /\ gcTimer' = id
          /\ timers' = s.timers \cup {id}
    /\ UNCHANGED <<peers, shape, held, store, clock, pc, op, ret, pre>>

\* gcStop(), or dispose() when release is TRUE, called and returned
Stop(release) ==
    /\ pc = "idle"
    /\ LET s == IF release THEN Disposed(gcTimer, timers) ELSE GcStopped(gcTimer, timers)
       IN /\ gcTimer' = s.gcTimer
          /\ timers' = s.timers
    /\ store' = IF release THEN Empty ELSE store
    /\ shape' = IF release THEN "null" ELSE shape
    /\ UNCHANGED <<peers, held, clock, pc, op, ret, pre>>

\* a scheduled timer fires and deleteExpired() runs; on a released store it
\* throws and changes nothing
Sweep ==
    /\ pc = "idle"
    /\ timers # {}
    /\ store' = IF shape = "mapping" THEN DeleteExpiredStore(store, TimeNow) ELSE store
    /\ UNCHANGED <<peers, shape, held, clock, gcTimer, timers, pc, op, ret, pre>>

NextSweep ==
    \/ \E c \in SweepSetCalls : Write(c)
    \/ \E c \in SweepDeleteCalls : Write(c)
    \/ Start
    \/ \E release \in BOOLEAN : Stop(release)
    \/ Sweep
    \/ Tick

SpecSweep ==
    /\ Init /\ [][NextSweep]_vars
    /\ SF_vars(Sweep) /\ WF_vars(Tick)

\* ------------------------------------------------------------- export and import
\* One instance whose client exports, keeps a snapshot and imports it, as
\* text or as an object, or imports something else; between the two the
\* store changes, so the importing store is any store.  Calls are made
\* while the store holds a mapping.

PortSetCalls ==
    { [name |-> "set", key |-> k, payload |-> x.payload, opts |-> x.opts] :
        k \in Keys,
        x \in { [payload |-> "v1", opts |-> NoSetOpts],
                [payload |-> "v2", opts |-> [NoSetOpts EXCEPT !.expireIn = Num(-1)]],
                [payload |-> "v2", opts |-> [NoSetOpts EXCEPT !.expireIn = Num(0 - clock)]],
                [payload |-> "v1", opts |-> [NoSetOpts EXCEPT !.expireAt = Num(2)]],
                [payload |-> Circular, opts |-> [NoSetOpts EXCEPT !.tags = Arr(<<Foo>>)]],
                [payload |-> "v1", opts |-> [NoSetOpts EXCEPT !.tags = Num(5)]] } }

\* calls with a key or tag input that is neither a string nor an array
PortBadCalls ==
    { [name |-> "delete", keys |-> Num(5)],
      [name |-> "getTagged", tags |-> Num(5), opts |-> [all |-> Undef, meta |-> Undef]],
      [name |-> "deleteTagged", tags |-> Num(5), opts |-> [all |-> Undef]],
      [name |-> "trigger", tags |-> Num(5), opts |-> [all |-> Undef]] }

\* what the client passes to import: the snapshot it holds, as text or as
\* an object, or one of the other values
ImportCalls ==
    { [name |-> "import", obj |-> x] :
        x \in { Text("mapping", held.state), Object("mapping", held.state),
                Text("invalid", Empty), Text("number", Empty), Text("null", Empty),
                Object("null", Empty), Object("array", Empty),
                Other("number"), Other("boolean"), Other("undefined") } }

InvokePort ==
    /\ shape = "mapping"
    /\ \/ \E c \in PortSetCalls : Call(c)
       \/ \E c \in PortBadCalls : Call(c)
       \/ \E c \in ExportCalls : Call(c)
       \/ \E c \in ImportCalls : Call(c)

NextPort ==
    \/ InvokePort
    \/ Set \/ Delete \/ GetTagged \/ DeleteTagged \/ Trigger
    \/ Export \/ Import \/ Keep
    \/ Return
    \/ Tick

SpecPort == Init /\ [][NextPort]_vars

\* ------------------------------------------------------------- instances
\* A parent, the instance of the variables store and gcTimer, and the two
\* instances it spawns, with the state object or without.  Every instance
\* writes to its store and starts and stops its sweep.

SpawnParentCalls ==
    { [name |-> "set", key |-> Key1, payload |-> "v2", opts |-> NoSetOpts] }

PeerSetCalls ==
    { [name |-> "set", key |-> Key1, payload |-> "v2",
       opts |-> [NoSetOpts EXCEPT !.expireIn = Num(-1)]] }

PeerDeleteCalls == { [name |-> "delete", keys |-> Str(Key1)] }

PeerTriggerCalls == { [name |-> "trigger", tags |-> Arr(<<Foo>>), opts |-> [all |-> Undef]] }

InvokeSpawn == \E c \in SpawnParentCalls : Call(c)

NextSpawn ==
    \/ InvokeSpawn
    \/ Set
    \/ Return
    \/ Tick
    \/ \E i \in Peers, state \in {"absent", "S"} : Spawn(i, state)
    \/ \E i \in Peers, c \in PeerSetCalls : PeerWrite(i, c)
    \/ \E i \in Peers, c \in PeerDeleteCalls : PeerWrite(i, c)
    \/ \E i \in Peers, c \in PeerTriggerCalls : PeerWrite(i, c)
    \/ \E i \in Peers : PeerClear(i)
    \/ \E i \in Peers, type \in {"object", "string"} : PeerImport(i, type)
    \/ \E i \in Peers : PeerGcStart(i)
    \/ \E i \in Peers : PeerGcStop(i)
    \/ \E i \in Peers : PeerDispose(i)
    \/ \E i \in Peers : PeerTick(i)

SpecSpawn == Init /\ [][NextSpawn]_vars

\* ------------------------------------------------------------- properties

\* the call op.name has returned
Done(n) == pc = "done" /\ op.name = n

\* the value of a miss: the `default` option when given, null otherwise
Miss(opts) == IF opts.default = Undefined THEN Null ELSE opts.default

\* expires is the never-expires marker or a timestamp after now
LiveAt(item, now) ==
    \/ item.expires = False
    \/ item.expires.t = "number" /\ item.expires.n > now

\* the tags input is of a documented type: a string or an array
ValidTags(x) == x.t \in {"string", "array"}

\* the elements of an array
Range(seq) == {seq[i] : i \in 1..Len(seq)}

\* C1: get(k) without maxAge and without force returns the payload iff k is
\* stored and its expires is the never-expires marker or a timestamp after
\* now; otherwise it returns the default option, or null when there is none.
C1_GetByExpires ==
    (Done("get") /\ op.opts.maxAge = Undef /\ op.opts.force = Undef) =>
        ret = IF op.key \in DOMAIN pre /\ LiveAt(pre[op.key], clock)
              THEN pre[op.key].payload
              ELSE Miss(op.opts)

\* C1 witness: a get of a stored key whose expires equals now has missed
C1_Witness ==
    /\ Done("get") /\ op.opts.maxAge = Undef /\ op.opts.force = Undef
    /\ op.key \in DOMAIN pre
    /\ pre[op.key].expires = Num(clock)
    /\ op.opts.default = "def"
    /\ ret = "def"

\* what C2 says get(k, {maxAge}) returns for a stored key
ByAge(item, opts, now) ==
    IF opts.maxAge.n > now - item.created THEN item.payload ELSE Miss(opts)

\* C2 as stated: for every maxAge supplied, 0 included, and no force, get on
\* a stored key returns the payload iff maxAge > now - created.
C2_AsStated ==
    (Done("get") /\ op.opts.maxAge.t = "number" /\ op.opts.maxAge.n >= 0
        /\ op.opts.force = Undef /\ op.key \in DOMAIN pre) =>
        ret = ByAge(pre[op.key], op.opts, clock)

\* C2 amended: for every positive maxAge and no force, get on a stored key
\* ignores expires and returns the payload iff maxAge > now - created; a
\* maxAge of 0 counts as not supplied and expires decides.
C2_MaxAgeOverrides ==
    (Done("get") /\ op.opts.maxAge.t = "number" /\ op.opts.maxAge.n >= 0
        /\ op.opts.force = Undef /\ op.key \in DOMAIN pre) =>
        ret = IF op.opts.maxAge.n > 0
              THEN ByAge(pre[op.key], op.opts, clock)
              ELSE IF LiveAt(pre[op.key], clock)
                   THEN pre[op.key].payload
                   ELSE Miss(op.opts)

\* C2 witness: an item that expires in the future has missed on its age
C2_Witness ==
    /\ Done("get") /\ op.opts.maxAge.t = "number" /\ op.opts.maxAge.n > 0
    /\ op.opts.force = Undef /\ op.key \in DOMAIN pre
    /\ pre[op.key].expires.t = "number" /\ pre[op.key].expires.n > clock
    /\ clock - pre[op.key].created >= op.opts.maxAge.n
    /\ ret = Null

\* set was given an expireIn or expireAt whose timestamp is before now
SuppliedPast(opts, now) ==
    \/ opts.expireIn.t = "number" /\ now + opts.expireIn.n < now
    \/ opts.expireAt.t = "number" /\ opts.expireAt.n < now

\* set was given an expireIn or expireAt whose timestamp is now or before
SuppliedNotAfter(opts, now) ==
    \/ opts.expireIn.t = "number" /\ now + opts.expireIn.n <= now
    \/ opts.expireAt.t = "number" /\ opts.expireAt.n <= now

\* what get(k) with no options returns right after the set in op
GetAfterSet == GetResult(store, op.key, NoGetOpts, clock)

\* C3 as stated: get(k) right after set(k, payload, opts), at the same
\* clock, returns the payload unless an expireIn or expireAt in the past
\* (timestamp strictly before now) was supplied.
C3_AsStated ==
    (Done("set") /\ op.opts.tags.t # "number") =>
        (GetAfterSet = op.payload \/ SuppliedPast(op.opts, clock))

\* C3 amended: get(k) right after set(k, payload, opts), at the same clock,
\* returns the payload unless an expireIn or expireAt that is not in the
\* future (timestamp at or before now) was supplied.
C3_GetAfterSet ==
    (Done("set") /\ op.opts.tags.t # "number") =>
        (GetAfterSet = op.payload \/ SuppliedNotAfter(op.opts, clock))

\* C3 witness: a set with an expiry in the future, over an item that a get
\* would have missed, and the get after it hits
C3_Witness ==
    /\ Done("set") /\ op.opts.tags.t # "number"
    /\ ~SuppliedNotAfter(op.opts, clock)
    /\ op.opts.expireIn.t = "number"
    /\ op.key \in DOMAIN pre
    /\ GetResult(pre, op.key, NoGetOpts, clock) = Null
    /\ GetAfterSet = op.payload

\* C4 as stated: after set at now, expires is now + expireIn when expireIn
\* is given (0 included, expireAt then ignored), otherwise expireAt when
\* given, otherwise the never-expires marker.
C4_AsStated ==
    (Done("set") /\ op.opts.tags.t # "number") =>
        store[op.key].expires =
            IF op.opts.expireIn.t = "number" THEN Num(clock + op.opts.expireIn.n)
            ELSE IF op.opts.expireAt.t = "number" THEN op.opts.expireAt
            ELSE False

\* C4 amended: after set at now, expires is now + expireIn when expireIn is
\* given and not 0 (expireAt is then ignored), otherwise expireAt when it is
\* given and not 0, otherwise the never-expires marker; and every stored
\* expires is the never-expires marker or an absolute timestamp.
C4_Expires ==
    /\ (Done("set") /\ op.opts.tags.t # "number") =>
          store[op.key].expires =
              IF op.opts.expireIn.t = "number" /\ op.opts.expireIn.n # 0
              THEN Num(clock + op.opts.expireIn.n)
              ELSE IF op.opts.expireAt.t = "number" /\ op.opts.expireAt.n # 0
                   THEN op.opts.expireAt
                   ELSE False
    /\ \A k \in DOMAIN store :
          store[k].expires = False \/ store[k].expires.t = "number"

\* C4 witness: a set with both options has stored now + expireIn
C4_Witness ==
    /\ Done("set")
    /\ op.opts.expireIn.t = "number" /\ op.opts.expireAt.t = "number"
    /\ store[op.key].expires = Num(clock + op.opts.expireIn.n)
    /\ store[op.key].expires # op.opts.expireAt

\* C5: set on an existing key replaces the item: payload, tags and expires
\* come from this call alone, created is the clock at the call, every other
\* key keeps its item, and the call returns true.  (The tags option is a
\* string, an array or missing.)
C5_SetReplaces ==
    (Done("set") /\ op.opts.tags.t # "number" /\ op.key \in DOMAIN pre) =>
        /\ store[op.key].key = op.key
        /\ store[op.key].payload = op.payload
        /\ store[op.key].created = clock
        /\ (op.opts.tags.t = "undefined" \/ op.opts.tags = Str(<<>>)) =>
              store[op.key].tags = False
        /\ op.opts.tags.t = "array" => store[op.key].tags = op.opts.tags
        /\ (op.opts.tags.t = "string" /\ op.opts.tags # Str(<<>>)) =>
              /\ store[op.key].tags.t = "array"
              /\ \A i \in 1..Len(store[op.key].tags.a) :
                    \A j \in 1..Len(store[op.key].tags.a[i]) :
                        store[op.key].tags.a[i][j] \notin Whitespace
        /\ (op.opts.expireIn = Undef /\ op.opts.expireAt = Undef) =>
              store[op.key].expires = False
        /\ (op.opts.expireIn = Undef /\ op.opts.expireAt.t = "number"
               /\ op.opts.expireAt.n # 0) =>
              store[op.key].expires = op.opts.expireAt
        /\ DOMAIN store = DOMAIN pre
        /\ \A k \in DOMAIN pre \ {op.key} : store[k] = pre[k]
        /\ ret = TRUE

\* C5 witness: a set without options over a tagged item with an expiry,
\* next to another item
C5_Witness ==
    /\ Done("set") /\ op.opts = NoSetOpts
    /\ op.key \in DOMAIN pre
    /\ pre[op.key].tags.t = "array" /\ pre[op.key].expires.t = "number"
    /\ pre[op.key].payload # op.payload /\ pre[op.key].created < clock
    /\ DOMAIN pre # {op.key}
    /\ store[op.key].tags = False /\ store[op.key].expires = False

\* the calls that only read
ReadCall ==
    \/ op.name \in {"get", "getMeta", "getTagged", "gcStatus"}
    \/ op.name \in {"keys", "count", "tags"} /\ op.validOnly = Undef
    \/ op.name = "export" /\ (op.opts.expired = True \/ op.opts.persistent = True)

PastKeys(st, now) ==
    {k \in DOMAIN st : st[k].expires.t = "number" /\ st[k].expires.n < now}

\* C7: deleteExpired() removes exactly the items whose expires is a
\* timestamp strictly less than now, keeps every other item as it was, and
\* returns the number of items removed, the decrease of count().
C7_AsStated ==
    Done("deleteExpired") =>
        /\ store = Remove(pre, PastKeys(pre, clock))
        /\ ret = Cardinality(PastKeys(pre, clock))
        /\ ret = Cardinality(DOMAIN pre) - Cardinality(DOMAIN store)

\* the calls that sweep: deleteExpired(), keys(true), count(true),
\* tags(true) and export() without persistent and expired
SweepCall ==
    \/ op.name = "deleteExpired"
    \/ op.name \in {"keys", "count", "tags"} /\ op.validOnly = True
    \/ op.name = "export" /\ op.opts.expired = Undef /\ op.opts.persistent = Undef

\* C8: right after a sweep, at the same clock, every item left in the store
\* is fresh: get(k) with no options returns its payload.
C8_AsStated ==
    (pc = "done" /\ SweepCall) =>
        \A k \in DOMAIN store : GetResult(store, k, NoGetOpts, clock) = store[k].payload

\* the tagged items that match the query: with all, every query tag is a tag
\* of the item; otherwise some query tag is
Matching(st, query, all) ==
    {k \in DOMAIN st :
        /\ st[k].tags.t = "array"
        /\ IF all = True
           THEN Range(query) \subseteq Range(st[k].tags.a)
           ELSE Range(query) \cap Range(st[k].tags.a) # {}}

\* C9: deleteTagged(tags, opts) and trigger(tags, opts) do the same: each
\* removes exactly the tagged items that match, expired or not, keeps every
\* other item as it was, and returns the number of items removed.
C9_DeleteTagged ==
    ((Done("deleteTagged") \/ Done("trigger")) /\ ValidTags(op.tags)) =>
        LET m == Matching(pre, ParamArray(op.tags), op.opts.all) IN
        /\ store = Remove(pre, m)
        /\ ret = Cardinality(m)

\* C9 witness: trigger with all has removed an expired item that has every
\* query tag and has kept a tagged item that lacks one
C9_Witness ==
    /\ Done("trigger") /\ ValidTags(op.tags) /\ op.opts.all = True
    /\ ret = 1
    /\ \E k \in DOMAIN pre \ DOMAIN store :
          pre[k].expires.t = "number" /\ pre[k].expires.n < clock
    /\ \E k \in DOMAIN store :
          /\ store[k].tags.t = "array"
          /\ Range(ParamArray(op.tags)) \cap Range(store[k].tags.a) # {}

\* C10: getTagged(tags, opts) returns a mapping whose keys are exactly the
\* tagged items that match, each with its payload, or with the whole item
\* under meta; neither the clock nor expires nor created matters.
C10_GetTagged ==
    (Done("getTagged") /\ ValidTags(op.tags)) =>
        LET m == Matching(pre, ParamArray(op.tags), op.opts.all) IN
        /\ DOMAIN ret = m
        /\ \A k \in m : ret[k] = IF op.opts.meta = True THEN pre[k] ELSE pre[k].payload

\* C10 witness: the result holds an expired item and leaves out a tagged
\* item that does not match
C10_Witness ==
    /\ Done("getTagged") /\ ValidTags(op.tags) /\ op.opts.meta = Undef
    /\ \E k \in DOMAIN ret :
          pre[k].expires.t = "number" /\ pre[k].expires.n < clock
    /\ \E k \in DOMAIN pre \ DOMAIN ret : pre[k].tags.t = "array"

\* the items stored with no tags
Untagged(st) == {k \in DOMAIN st : st[k].tags = False}

\* the query has no tag in common with the tags of any stored item
Disjoint(st, query) ==
    \A k \in DOMAIN st : Range(query) \cap Range(st[k].tags.a) = {}

\* C11: an item stored with no tags is never matched by getTagged,
\* deleteTagged or trigger, whatever the query, any or all, the empty query
\* included; and an any-match query whose tags are disjoint from the tags of
\* every stored item gets an empty result from getTagged and removes
\* nothing, returning 0, from deleteTagged and trigger.
C11_UntaggedNeverMatch ==
    /\ (Done("getTagged") /\ ValidTags(op.tags)) =>
          /\ DOMAIN ret \cap Untagged(pre) = {}
          /\ (op.opts.all = Undef /\ Disjoint(pre, ParamArray(op.tags))) =>
                DOMAIN ret = {}
    /\ ((Done("deleteTagged") \/ Done("trigger")) /\ ValidTags(op.tags)) =>
          /\ \A k \in Untagged(pre) : k \in DOMAIN store /\ store[k] = pre[k]
          /\ (op.opts.all = Undef /\ Disjoint(pre, ParamArray(op.tags))) =>
                (ret = 0 /\ store = pre)

\* C11 witness: getTagged with all and the empty query has returned a tagged
\* item and has left out an untagged one
C11_Witness ==
    /\ Done("getTagged") /\ op.tags = Arr(<<>>) /\ op.opts.all = True
    /\ DOMAIN ret # {}
    /\ Untagged(pre) # {}

\* C12: delete(keys), given one key or a sequence of keys, removes exactly
\* the named keys that are stored, keeps every other item as it was, skips
\* names that are absent or repeated, and returns the number of items
\* removed, which is the decrease of count().
C12_Delete ==
    (Done("delete") /\ ValidTags(op.keys)) =>
        LET names == Range(ParamArray(op.keys)) IN
        /\ store = Remove(pre, names)
        /\ ret = Cardinality(names \cap DOMAIN pre)
        /\ ret = Cardinality(DOMAIN pre) - Cardinality(DOMAIN store)

\* C12 witness: delete of a sequence that names one stored key twice has
\* removed it, returned 1 and kept the other item
C12_Witness ==
    /\ Done("delete") /\ op.keys = Arr(<<Key2, Key2>>)
    /\ Key2 \in DOMAIN pre
    /\ ret = 1
    /\ DOMAIN store = {Key1}

\* C20: get(k, {force: true}) returns the payload whenever k is stored,
\* whatever its expires and created and whatever maxAge is given; when k is
\* absent it returns the default option, or null when there is none.
C20_Force ==
    (Done("get") /\ op.opts.force = True) =>
        ret = IF op.key \in DOMAIN pre THEN pre[op.key].payload ELSE Miss(op.opts)

\* C20 witness: a forced get with a maxAge the item has outlived has
\* returned the payload of an expired item
C20_Witness ==
    /\ Done("get") /\ op.opts.force = True /\ op.opts.maxAge.t = "number"
    /\ op.key \in DOMAIN pre
    /\ pre[op.key].expires.t = "number" /\ pre[op.key].expires.n < clock
    /\ clock - pre[op.key].created >= op.opts.maxAge.n
    /\ ret = pre[op.key].payload

\* the step in which the call of method n returns
Returns(n) == pc = "call" /\ op.name = n /\ pc' = "done"

\* the step in which a timer fires and the sweep runs
Fires == pc = "idle" /\ pc' = "done" /\ op'.name = "gcTick"

\* at most one timer is scheduled, the one the instance holds, and
\* gcStatus() says whether exactly one is scheduled
OneTimer ==
    /\ Cardinality(timers) <= 1
    /\ timers = IF gcTimer = 0 THEN {} ELSE {gcTimer}
    /\ Done("gcStatus") => (ret = (Cardinality(timers) = 1))

\* gcStop() returns true iff a timer was scheduled when it was called, and
\* none is scheduled afterwards
StopTells == Returns("gcStop") => (ret' = (timers # {}) /\ timers' = {})

\* C13: after any sequence of gcStart, gcStop and dispose calls on one
\* instance at most one sweep timer is scheduled (no timer leaks),
\* gcStatus() returns true iff exactly one timer is scheduled, and gcStop()
\* returns true iff a timer was scheduled when it was called, so that the
\* second of two gcStop() calls in a row returns false.
C13_OneTimer == []OneTimer /\ [][StopTells]_vars

\* C13 witness: gcStatus() has returned true on an instance that was
\* disposed of and started again
C13_Witness ==
    /\ Done("gcStatus") /\ shape = "null"
    /\ ret = TRUE
    /\ timers = {gcTimer}

\* once gcStop() or dispose() has returned no timer is scheduled
StoppedNoTimer == (Done("gcStop") \/ Done("dispose")) => timers = {}

\* only gcStart() schedules a timer
OnlyStartSchedules == (timers = {} /\ timers' # {}) => Returns("gcStart")

\* C14 as stated: once gcStop() or dispose() has returned, no sweep tick
\* runs until a later gcStart(); no tick ever runs against a store that
\* dispose() has released; a new instance runs no tick before its first
\* gcStart().
C14_AsStated ==
    /\ []StoppedNoTimer
    /\ [][OnlyStartSchedules]_vars
    /\ [][Fires => (timers # {} /\ shape # "null")]_vars

\* C14 amended: once gcStop() or dispose() has returned, no sweep tick runs
\* until a later gcStart(), and a new instance runs no tick before its first
\* gcStart(): a tick runs only while a timer is scheduled, only gcStart()
\* schedules one, and none is scheduled when gcStop() or dispose() returns.
\* So a tick runs against a released store only after a gcStart() that
\* follows the dispose().
C14_NoTickAfterStop ==
    /\ []StoppedNoTimer
    /\ [][OnlyStartSchedules]_vars
    /\ [][Fires => timers # {}]_vars

\* C14 witness: a tick has run on a released store, after dispose() and a
\* later gcStart(), and the sweep has thrown
C14_Witness ==
    /\ pc = "done" /\ op.name = "gcTick"
    /\ shape = "null"
    /\ timers # {}

\* every payload of the store can be serialised
Serialisable(st) == \A k \in DOMAIN st : st[k].payload # Circular

\* C15: for a store whose payloads are serialisable, export() in default
\* mode followed by import() of the result, on the same or any other
\* instance and at the same clock, gives a store whose keys are exactly the
\* items that were not already expired at the export, each with the same
\* payload, tags, expires and created; the items already expired and the
\* keys the importing store held before are absent.
C15_AsStated ==
    /\ (Done("export") /\ ExportSweeps(op.opts) /\ Serialisable(pre)) =>
          ret.state = Remove(pre, PastKeys(pre, clock))
    /\ (Done("import") /\ op.obj.kind = "mapping" /\ held.at = clock) =>
          /\ store = held.state
          /\ PastKeys(store, held.at) = {}

\* the items whose expires is the never-expires marker
Persistent(st) == [k \in {x \in DOMAIN st : st[x].expires = False} |-> st[k]]

\* C16: export() with persistent exports exactly the items whose expires is
\* the never-expires marker; with expired and not persistent it exports
\* every item; with neither it exports exactly the items that remain after
\* a deleteExpired() at the current clock.
C16_AsStated ==
    (Done("export") /\ ~ExportThrows(pre, op.opts, clock)) =>
        ret.state = IF op.opts.persistent = True THEN Persistent(pre)
                    ELSE IF op.opts.expired = True THEN pre
                    ELSE DeleteExpiredStore(pre, clock)

\* the call in op raises an error: a key or tag input that is neither a
\* string nor an array, an import of a value or text that import rejects,
\* an export that meets a payload that cannot be serialised
Raises ==
    CASE op.name = "set" -> SetThrows(op.opts)
      [] op.name = "delete" -> ParamArrayThrows(op.keys)
      [] op.name \in {"getTagged", "deleteTagged", "trigger"} -> ParamArrayThrows(op.tags)
      [] op.name = "import" -> ImportThrows(op.obj)
      [] op.name = "export" -> ExportThrows(pre, op.opts, clock)
      [] OTHER -> FALSE

\* C17: there are no partial failures: whenever a public operation raises
\* an error, export in any mode included, the store is exactly what it was
\* before the call.
C17_AsStated ==
    (pc = "done" /\ Raises) => (ret = Thrown /\ store = pre /\ shape = "mapping")

\* C18: import(x) raises an error for every x that is neither a mapping
\* nor text that parses to one (a number, a boolean, undefined, null, a
\* sequence) and then does not replace the store; it returns true and
\* installs x when x is a mapping or the text of one.
C18_AsStated ==
    Done("import") =>
        IF op.obj.kind = "mapping"
        THEN ~ImportThrows(op.obj) /\ ret = TRUE /\ store = op.obj.state /\ shape = "mapping"
        ELSE ImportThrows(op.obj) /\ ret = Thrown /\ store = pre /\ shape = "mapping"

\* what can be seen of a spawned instance: whether it holds a store, the
\* items of that store, and whether its sweep runs
Seen(ps, i) ==
    [ holds |-> Holds(ps, i),
      items |-> IF Holds(ps, i) THEN ps.heap[ps.inst[i].ref] ELSE Empty,
      gcStatus |-> ps.inst[i].gcTimer # 0 ]

\* the step is an operation of the spawned instance i
PeerActs(i) ==
    \/ \E c \in PeerSetCalls \cup PeerDeleteCalls \cup PeerTriggerCalls : PeerWrite(i, c)
    \/ PeerClear(i)
    \/ \E type \in {"object", "string"} : PeerImport(i, type)
    \/ PeerGcStart(i) \/ PeerGcStop(i) \/ PeerDispose(i) \/ PeerTick(i)

\* C19: instances are fully isolated: for the instances made by spawn(opts),
\* with a state or without, two instances given the same state included, no
\* operation on one instance (set, delete, clear, trigger, sweep tick,
\* import, gcStart, gcStop, dispose) changes the store contents or the sweep
\* status of the parent or of any other instance.
C19_AsStated ==
    [][ /\ \A i \in Peers : PeerActs(i) =>
              /\ store' = store /\ shape' = shape /\ gcTimer' = gcTimer
              /\ \A j \in Peers \ {i} : Seen(peers', j) = Seen(peers, j)
        /\ (pc = "call" /\ pc' = "done") =>
              \A j \in Peers : Seen(peers', j) = Seen(peers, j) ]_vars

\* C21: deleteExpired() is idempotent at a fixed clock: for every store, a
\* second deleteExpired() called right after a first one, with no clock
\* advance and no other operation in between, removes nothing, returns 0 and
\* leaves the store as the first call left it.
C21_Idempotent ==
    (pc = "done" /\ op = SecondSweep) => (ret = 0 /\ store = pre)

\* C21 witness: the second call has returned 0 on a store that still holds
\* an item with a timestamp and one without
C21_Witness ==
    /\ pc = "done" /\ op = SecondSweep
    /\ ret = 0
    /\ \E k \in DOMAIN store : store[k].expires.t = "number"
    /\ \E k \in DOMAIN store : store[k].expires = False

\* key k holds an item with a timestamp expiry that the clock gets past
Timed(k) ==
    /\ k \in DOMAIN store
    /\ store[k].expires.t = "number"
    /\ store[k].expires.n < MaxTime

\* a tick removes no item that has the never-expires marker
TickKeepsForever ==
    Sweep => \A k \in DOMAIN store :
                store[k].expires = False => (k \in DOMAIN store' /\ store'[k] = store[k])

\* C22: when the sweep has been started and is never stopped, the clock goes
\* on and the timer keeps firing, every item stored with a timestamp expiry
\* that no later set or import overwrites is removed in the end, whatever
\* calls come between the ticks; and no tick ever removes an item that has
\* the never-expires marker.
C22_AsStated ==
    /\ \A k \in Keys : [](Timed(k) => <>(~Timed(k) \/ timers = {}))
    /\ [][TickKeepsForever]_vars

====
